---------------------------- MODULE Spec2Model ----------------------------
(***************************************************************************)
(* Model of the MacroPulse mock market engine (src/main.py): the price     *)
(* simulator, the return calculator, the regime classifier, the signal     *)
(* generator, the relative-strength ranking and the live() handler that    *)
(* runs them against the module-level price state _last.                   *)
(*                                                                         *)
(* Numbers.  The program computes with floats; the model computes with     *)
(* decimal fixed point, exactly, on these grids:                           *)
(*   prices         in cents                 (PriceScale units per dollar) *)
(*   returns        in 1e-3 percent          (RetScale units per percent)  *)
(*   probabilities  in 1e-5                  (ProbScale units per 1.0)     *)
(* A quotient is rounded to the nearest grid point, as a float division    *)
(* rounds to the nearest double.  round(x, n) is round-half-even.  The     *)
(* return grid is the 3 decimals the response reports.                     *)
(***************************************************************************)
EXTENDS Integers, Sequences, FiniteSets, TLC

PriceScale == 10 ^ 2
RetScale   == 10 ^ 3
ProbScale  == 10 ^ 5

\* x hundredths as a probability, x percent as a return, x dollars as a price
Prob(x)    == x * (ProbScale \div 100)
Percent(x) == x * RetScale
Dollars(x) == x * PriceScale

Abs(x)    == IF x < 0 THEN -x ELSE x
Max(a, b) == IF a >= b THEN a ELSE b
Min(a, b) == IF a <= b THEN a ELSE b

\* floor(n * 10^k / d) for n >= 0, d > 0, by long division
RECURSIVE ScaleDiv(_, _, _)
ScaleDiv(n, d, k) ==
    IF k = 0 THEN n \div d
    ELSE (n \div d) * (10 ^ k) + ScaleDiv((n % d) * 10, d, k - 1)

\* (n * 10^k) mod d, the remainder that long division leaves
RECURSIVE ScaleRem(_, _, _)
ScaleRem(n, d, k) ==
    IF k = 0 THEN n % d
    ELSE ScaleRem((n % d) * 10, d, k - 1)

\* n * RetScale / d for n >= 0, d > 0, rounded to the nearest integer
Quotient(n, d) ==
    ScaleDiv(n, d, 3) + (IF 2 * ScaleRem(n, d, 3) >= d THEN 1 ELSE 0)

\* A sum s >= 0 of returns, cut where min(cap, base + k * s) stops depending
\* on it (k >= 1, base >= 0, cap <= 1.0): the product then stays within the
\* integers of the model checker, and the minimum is the same.
Within(s) == IF s <= ProbScale THEN s ELSE ProbScale

\* round(n / d) to the nearest integer, ties to even (Python's round)
RoundHalfEven(n, d) ==
    LET q == n \div d
        r == n % d
    IN  IF 2 * r < d THEN q
        ELSE IF 2 * r > d THEN q + 1
        ELSE IF q % 2 = 0 THEN q ELSE q + 1

---------------------------------------------------------------------------
(* The asset registry, in the insertion order of the ASSETS dict.          *)

ASSETS == << "SPY", "GLD", "BTC", "TLT" >>

InitialPrice ==
    [ SPY |-> Dollars(500), GLD |-> Dollars(190),
      BTC |-> Dollars(50000), TLT |-> Dollars(95) ]

Range(s) == { s[i] : i \in DOMAIN s }

\* the 0.01 price floor, in cents
Floor == 1

---------------------------------------------------------------------------
(* Pure functions.                                                         *)

\* _tick_price(p, vol): shock = gauss(0, vol); max(0.01, p * (1 + shock)).
\* The gaussian draw is unbounded, and for p > 0 each raw price p*(1+shock)
\* comes from exactly one shock; the draw is enumerated by the price change
\* move = p * shock it causes, so that p * (1 + shock) = p + move exactly.
_tick_price_unfloored(p, move) == p + move

_tick_price(p, move) == Max(Floor, p + move)

\* _pct(new, old): 0.0 when old == 0, else (new - old) / old * 100
_pct_of_new(new, old) ==
    IF new = 0 THEN 0
    ELSE LET d == new - old
             m == Quotient(Abs(d) * 100, new)
         IN  IF d < 0 THEN -m ELSE m

_pct(new, old) ==
    IF old = 0 THEN 0
    ELSE LET d == new - old
             m == Quotient(Abs(d) * 100, old)
         IN  IF d < 0 THEN -m ELSE m

\* _regime(spy_ret, btc_ret, tlt_ret, gld_ret) -> (label, conf)
_regime_uncapped(spy_ret, btc_ret, tlt_ret, gld_ret) ==
    LET risk_on  == spy_ret > 0 /\ btc_ret > 0 /\ tlt_ret < 0
        risk_off == tlt_ret > 0 /\ gld_ret > 0 /\ spy_ret < 0
    IN  IF risk_on
        THEN [ label |-> "RISK-ON",
               conf  |-> Prob(55) + 8 * Within(Abs(spy_ret) + Abs(btc_ret) + Abs(tlt_ret)) ]
        ELSE IF risk_off
        THEN [ label |-> "RISK-OFF",
               conf  |-> Prob(55) + 8 * Within(Abs(tlt_ret) + Abs(gld_ret) + Abs(spy_ret)) ]
        ELSE [ label |-> "TRANSITION",
               conf  |-> Min(Prob(75), Prob(45) + 4 * Within(Abs(spy_ret) + Abs(btc_ret))) ]

_regime_btc_in_risk_off(spy_ret, btc_ret, tlt_ret, gld_ret) ==
    LET risk_on  == spy_ret > 0 /\ btc_ret > 0 /\ tlt_ret < 0
        risk_off == tlt_ret > 0 /\ gld_ret > 0 /\ spy_ret < 0
    IN  IF risk_on
        THEN [ label |-> "RISK-ON",
               conf  |-> Min(Prob(95), Prob(55) + 8 * Within(Abs(spy_ret) + Abs(btc_ret) + Abs(tlt_ret))) ]
        ELSE IF risk_off
        THEN [ label |-> "RISK-OFF",
               conf  |-> Min(Prob(95), Prob(55) + 8 * Within(Abs(tlt_ret) + Abs(btc_ret) + Abs(spy_ret))) ]
        ELSE [ label |-> "TRANSITION",
               conf  |-> Min(Prob(75), Prob(45) + 4 * Within(Abs(spy_ret) + Abs(btc_ret))) ]

_regime(spy_ret, btc_ret, tlt_ret, gld_ret) ==
    LET risk_on  == spy_ret > 0 /\ btc_ret > 0 /\ tlt_ret < 0
        risk_off == tlt_ret > 0 /\ gld_ret > 0 /\ spy_ret < 0
    IN  IF risk_on
        THEN [ label |-> "RISK-ON",
               conf  |-> Min(Prob(95), Prob(55) + 8 * Within(Abs(spy_ret) + Abs(btc_ret) + Abs(tlt_ret))) ]
        ELSE IF risk_off
        THEN [ label |-> "RISK-OFF",
               conf  |-> Min(Prob(95), Prob(55) + 8 * Within(Abs(tlt_ret) + Abs(gld_ret) + Abs(spy_ret))) ]
        ELSE [ label |-> "TRANSITION",
               conf  |-> Min(Prob(75), Prob(45) + 4 * Within(Abs(spy_ret) + Abs(btc_ret))) ]

\* p_up of _signal, before the action is chosen (lines 59-68)
p_up_of(asset, ret_1h, vol_spike, regime) ==
    LET p0 == Prob(50) + 6 * Max(Percent(-5), Min(Percent(5), ret_1h))
        p1 == IF regime = "RISK-ON" /\ asset \in {"SPY", "BTC"} THEN p0 + Prob(8) ELSE p0
        p2 == IF regime = "RISK-OFF" /\ asset \in {"GLD", "TLT"} THEN p1 + Prob(8) ELSE p1
        p3 == IF vol_spike THEN p2 - Prob(5) ELSE p2
    IN  Max(Prob(5), Min(Prob(95), p3))

\* _signal(asset, ret_1h, vol_spike, regime); confidence is in tenths of a
\* percent (round(p_up * 100, 1)), p_up is kept for inspection
_signal_strict_thresholds(asset, ret_1h, vol_spike, regime) ==
    LET p_up == p_up_of(asset, ret_1h, vol_spike, regime)
    IN  [ asset      |-> asset,
          action     |-> IF p_up > Prob(60) THEN "BUY"
                         ELSE IF p_up < Prob(40) THEN "SELL"
                         ELSE "HOLD",
          p_up       |-> p_up,
          confidence |-> RoundHalfEven(p_up, ProbScale \div 1000) ]

_signal(asset, ret_1h, vol_spike, regime) ==
    LET p_up == p_up_of(asset, ret_1h, vol_spike, regime)
    IN  [ asset      |-> asset,
          action     |-> IF p_up >= Prob(60) THEN "BUY"
                         ELSE IF p_up <= Prob(40) THEN "SELL"
                         ELSE "HOLD",
          p_up       |-> p_up,
          confidence |-> RoundHalfEven(p_up, ProbScale \div 1000) ]

\* sorted(rets.items(), key=lambda x: x[1], reverse=True): a stable sort,
\* descending; items with equal keys keep the order of rets.items().
\* Insertion from the left: an item goes behind every item whose key is >= its own.
RECURSIVE InsertDesc(_, _)
InsertDesc(item, s) ==
    IF s = << >> THEN << item >>
    ELSE IF Head(s)[2] >= item[2] THEN << Head(s) >> \o InsertDesc(item, Tail(s))
    ELSE << item >> \o s

RECURSIVE InsertAsc(_, _)
InsertAsc(item, s) ==
    IF s = << >> THEN << item >>
    ELSE IF Head(s)[2] <= item[2] THEN << Head(s) >> \o InsertAsc(item, Tail(s))
    ELSE << item >> \o s

RECURSIVE SortDesc(_, _)
SortDesc(items, acc) ==
    IF items = << >> THEN acc
    ELSE SortDesc(Tail(items), InsertDesc(Head(items), acc))

RECURSIVE SortAsc(_, _)
SortAsc(items, acc) ==
    IF items = << >> THEN acc
    ELSE SortAsc(Tail(items), InsertAsc(Head(items), acc))

Reverse(s) == [ i \in 1..Len(s) |-> s[Len(s) + 1 - i] ]

\* rets.items() in the order the comprehension of line 122 built it
Items(order, rets) == [ i \in 1..Len(order) |-> << order[i], rets[order[i]] >> ]

\* a plausible slip: ascending sort, then reversed (ties come out reversed)
rs_rank_reversed_ascending(order, rets) ==
    Reverse(SortAsc(Items(order, rets), << >>))

rs_rank_of(order, rets) == SortDesc(Items(order, rets), << >>)

\* leader = rs_rank[0][0], laggard = rs_rank[-1][0]
leader_of(rank)  == rank[1][1]
laggard_of(rank) == rank[Len(rank)][1]

---------------------------------------------------------------------------
(* State.                                                                  *)
(*   registry  the keys of ASSETS, in insertion order (configuration)      *)
(*   _last     the module-level price state, asset -> price                *)
(*   th        one frame of live() per request thread of the server        *)
(*   started   calls of live() begun so far                                *)
(*   ver       history: how many times _last has been replaced             *)
(*   log       history: for each replacement, the versions of _last the    *)
(*             committing tick had read                                    *)
(*   probe     the last pure-function evaluation (SpecFn only)             *)

VARIABLES registry, _last, th, started, ver, log, probe

vars == << registry, _last, th, started, ver, log, probe >>

\* bounds: request threads of the server's pool, calls of live() in a run
NumThreads == 2
MaxTicks   == 2

Threads == 1..NumThreads

EmptyMap == [ a \in {} |-> 0 ]

\* the frame of a thread that is not inside live(); result is how its last
\* call ended ("none" before the first)
IdleFrame ==
    [ pc |-> "idle", i |-> 0, result |-> "none",
      new_prices |-> EmptyMap, vol_spike |-> EmptyMap, rets |-> EmptyMap,
      seen |-> {},
      rs_rank |-> << >>, leader |-> "", laggard |-> "",
      regime_label |-> "", regime_conf |-> 0, signals |-> << >> ]

\* the price changes p * shock the simulator's draw is enumerated by
Moves(a) ==
    CASE a = "SPY" -> { -Dollars(5), Dollars(5) }
      [] a = "GLD" -> { -Dollars(2) }
      [] a = "BTC" -> { Dollars(1000) }
      [] a = "TLT" -> { -Dollars(100), -Dollars(1) }

\* the outcomes of random.random() < 0.12 that are enumerated
Spikes(a) == IF a = "SPY" THEN BOOLEAN ELSE { FALSE }

\* _last = {k: v["price"] for k, v in ASSETS.items()}
InitLast(reg) == [ a \in Range(reg) |-> InitialPrice[a] ]

InitWith(reg) ==
    /\ registry = reg
    /\ _last = InitLast(reg)
    /\ th = [ t \in Threads |-> IdleFrame ]
    /\ started = 0
    /\ ver = 0
    /\ log = << >>
    /\ probe = [ kind |-> "none", done |-> TRUE ]

Init == InitWith(ASSETS)

\* live() is entered: lines 107-115
Call(t) ==
    /\ th[t].pc = "idle"
    /\ started < MaxTicks
    /\ started' = started + 1
    /\ th' = [ th EXCEPT ![t] =
                 [ IdleFrame EXCEPT !.pc = IF registry = << >> THEN "derive" ELSE "sim",
                                    !.i  = 1 ] ]
    /\ UNCHANGED << registry, _last, ver, log, probe >>

\* one iteration of the loop of lines 116-119: reads _last[a].  volume[a]
\* (line 118) is drawn and only copied into the response; it is left out.
\* The variant below writes each new price into _last as it is drawn.
SimulateInPlace(t) ==
    /\ th[t].pc = "sim"
    /\ LET f == th[t]
           a == registry[f.i]
           last == f.i = Len(registry)
       IN  \E move \in Moves(a), spike \in Spikes(a) :
             /\ th' = [ th EXCEPT ![t] =
                   [ f EXCEPT !.new_prices = @ @@ (a :> _tick_price(_last[a], move)),
                              !.vol_spike  = @ @@ (a :> spike),
                              !.seen       = @ \cup { ver },
                              !.pc         = IF last THEN "rets" ELSE "sim",
                              !.i          = IF last THEN 1 ELSE f.i + 1 ] ]
             /\ _last' = [ _last EXCEPT ![a] = _tick_price(_last[a], move) ]
    /\ UNCHANGED << registry, started, ver, log, probe >>

Simulate(t) ==
    /\ th[t].pc = "sim"
    /\ LET f == th[t]
           a == registry[f.i]
           last == f.i = Len(registry)
       IN  \E move \in Moves(a), spike \in Spikes(a) :
             th' = [ th EXCEPT ![t] =
                   [ f EXCEPT !.new_prices = @ @@ (a :> _tick_price(_last[a], move)),
                              !.vol_spike  = @ @@ (a :> spike),
                              !.seen       = @ \cup { ver },
                              !.pc         = IF last THEN "rets" ELSE "sim",
                              !.i          = IF last THEN 1 ELSE f.i + 1 ] ]
    /\ UNCHANGED << registry, _last, started, ver, log, probe >>

\* one iteration of the comprehension of line 122: reads _last[a] again
Returns(t) ==
    /\ th[t].pc = "rets"
    /\ LET f == th[t]
           a == registry[f.i]
           last == f.i = Len(registry)
       IN  th' = [ th EXCEPT ![t] =
                   [ f EXCEPT !.rets      = @ @@ (a :> _pct(f.new_prices[a], _last[a])),
                              !.seen      = @ \cup { ver },
                              !.pc        = IF last THEN "derive" ELSE "rets",
                              !.i         = IF last THEN 0 ELSE f.i + 1 ] ]
    /\ UNCHANGED << registry, _last, started, ver, log, probe >>

\* the lookups of lines 126-137 succeed
CanDerive(t) ==
    /\ Len(registry) > 0
    /\ { "SPY", "GLD", "BTC", "TLT" } \subseteq DOMAIN th[t].rets

\* lines 125-137: ranking, leader, laggard, regime, signals (all local)
Derive(t) ==
    /\ th[t].pc = "derive"
    /\ CanDerive(t)
    /\ LET f == th[t]
           rank == rs_rank_of(registry, f.rets)
           reg  == _regime(f.rets["SPY"], f.rets["BTC"], f.rets["TLT"], f.rets["GLD"])
       IN  th' = [ th EXCEPT ![t] =
                   [ f EXCEPT !.rs_rank      = rank,
                              !.leader       = leader_of(rank),
                              !.laggard      = laggard_of(rank),
                              !.regime_label = reg.label,
                              !.regime_conf  = reg.conf,
                              !.signals      =
                                  << _signal("SPY", f.rets["SPY"], f.vol_spike["SPY"], reg.label),
                                     _signal("GLD", f.rets["GLD"], f.vol_spike["GLD"], reg.label),
                                     _signal("BTC", f.rets["BTC"], f.vol_spike["BTC"], reg.label),
                                     _signal("TLT", f.rets["TLT"], f.vol_spike["TLT"], reg.label) >>,
                              !.pc           = "commit" ] ]
    /\ UNCHANGED << registry, _last, started, ver, log, probe >>

\* a lookup of lines 126-137 fails: rs_rank[0] of an empty ranking raises
\* IndexError, rets[...] of an absent asset raises KeyError; live() ends there
Raise(t) ==
    /\ th[t].pc = "derive"
    /\ ~ CanDerive(t)
    /\ th' = [ th EXCEPT ![t] =
                 [ IdleFrame EXCEPT !.result = IF Len(registry) = 0 THEN "IndexError"
                                               ELSE "KeyError" ] ]
    /\ UNCHANGED << registry, _last, started, ver, log, probe >>

\* the response of lines 142-160, from the frame f of a tick about to commit:
\* price to 2 decimals, chg_pct to 3, confidence a percentage to 1 decimal
Response(f) ==
    [ assets   |-> [ a \in Range(registry) |->
                       [ price     |-> f.new_prices[a],
                         chg_pct   |-> RoundHalfEven(f.rets[a], RetScale \div 1000),
                         vol_spike |-> f.vol_spike[a] ] ],
      detector |-> [ leader  |-> f.leader,
                     laggard |-> f.laggard,
                     relative_strength_rank |->
                         [ k \in 1..Len(f.rs_rank) |->
                             [ asset   |-> f.rs_rank[k][1],
                               chg_pct |-> RoundHalfEven(f.rs_rank[k][2], RetScale \div 1000) ] ] ],
      regime   |-> [ label      |-> f.regime_label,
                     confidence |-> RoundHalfEven(f.regime_conf, ProbScale \div 1000) ],
      signals  |-> [ k \in 1..Len(f.signals) |->
                       [ asset      |-> f.signals[k].asset,
                         action     |-> f.signals[k].action,
                         confidence |-> f.signals[k].confidence ] ] ]

\* line 140, _last = new_prices, and the return of lines 142-160
Commit(t) ==
    /\ th[t].pc = "commit"
    /\ _last' = th[t].new_prices
    /\ ver' = ver + 1
    /\ log' = Append(log, th[t].seen)
    /\ th' = [ th EXCEPT ![t] = [ IdleFrame EXCEPT !.result = "ok" ] ]
    /\ UNCHANGED << registry, started, probe >>

Next ==
    \E t \in Threads :
        \/ Call(t)
        \/ Simulate(t)
        \/ Returns(t)
        \/ Derive(t)
        \/ Commit(t)

Spec == Init /\ [][Next]_vars

---------------------------------------------------------------------------
(* The same program over the configurations of the registry: ASSETS as     *)
(* written, and an empty ASSETS.                                           *)

InitCfg == \E reg \in { ASSETS, << >> } : InitWith(reg)

NextCfg ==
    \E t \in Threads :
        \/ Call(t)
        \/ Simulate(t)
        \/ Returns(t)
        \/ Derive(t)
        \/ Raise(t)
        \/ Commit(t)

SpecCfg == InitCfg /\ [][NextCfg]_vars

---------------------------------------------------------------------------
(* The pure functions on their own, applied to inputs from bounded grids.  *)

\* bounds: returns of -MaxVec..MaxVec percent for a return vector, and of
\* -MaxSig..MaxSig eighths of a percent for the return of one signal
MaxVec == 4
MaxSig == 48

VecGrid == { Percent(k) : k \in -MaxVec..MaxVec }
SigGrid == { k * (RetScale \div 8) : k \in -MaxSig..MaxSig }
Labels  == { "RISK-ON", "RISK-OFF", "TRANSITION" }

\* the inputs: a return vector for _regime, the arguments of _signal, a
\* mapping asset -> return for the ranking
RegimeInputs ==
    { [ kind |-> "regime", done |-> FALSE, spy |-> spy, btc |-> btc, tlt |-> tlt, gld |-> gld ] :
        spy \in VecGrid, btc \in VecGrid, tlt \in VecGrid, gld \in VecGrid }

SignalInputs ==
    { [ kind |-> "signal", done |-> FALSE, asset |-> asset, ret |-> ret, spike |-> spike,
        regime |-> regime ] :
        asset \in Range(ASSETS), ret \in SigGrid, spike \in BOOLEAN, regime \in Labels }

RankInputs ==
    { [ kind |-> "rank", done |-> FALSE, rets |-> rets ] : rets \in [ Range(ASSETS) -> VecGrid ] }

InitFn ==
    /\ registry = ASSETS
    /\ _last = InitLast(ASSETS)
    /\ th = [ t \in Threads |-> IdleFrame ]
    /\ started = 0
    /\ ver = 0
    /\ log = << >>
    /\ probe \in RegimeInputs \cup SignalInputs \cup RankInputs

Classify ==
    /\ probe.kind = "regime" /\ ~ probe.done
    /\ LET r == _regime(probe.spy, probe.btc, probe.tlt, probe.gld)
       IN  probe' = [ kind |-> "regime", done |-> TRUE,
                      spy |-> probe.spy, btc |-> probe.btc, tlt |-> probe.tlt, gld |-> probe.gld,
                      label |-> r.label, conf |-> r.conf ]
    /\ UNCHANGED << registry, _last, th, started, ver, log >>

Signal ==
    /\ probe.kind = "signal" /\ ~ probe.done
    /\ probe' = [ kind |-> "signal", done |-> TRUE,
                  asset |-> probe.asset, ret |-> probe.ret, spike |-> probe.spike,
                  regime |-> probe.regime,
                  out |-> _signal(probe.asset, probe.ret, probe.spike, probe.regime) ]
    /\ UNCHANGED << registry, _last, th, started, ver, log >>

Rank ==
    /\ probe.kind = "rank" /\ ~ probe.done
    /\ LET rank == rs_rank_of(ASSETS, probe.rets)
       IN  probe' = [ kind |-> "rank", done |-> TRUE, rets |-> probe.rets, rs_rank |-> rank,
                      leader |-> leader_of(rank), laggard |-> laggard_of(rank) ]
    /\ UNCHANGED << registry, _last, th, started, ver, log >>

NextFn == Classify \/ Signal \/ Rank

SpecFn == InitFn /\ [][NextFn]_vars

---------------------------------------------------------------------------
(* Properties.                                                             *)

\* C1: every read of _last that one tick makes (the simulator's basis of
\* each asset, line 117, and the denominator of its return, line 122)
\* observes one and the same committed price state.
TickReadsOneState ==
    \A t \in Threads : Cardinality(th[t].seen) <= 1

\* C2: no lost update: the k-th replacement of _last is made by a tick whose
\* reads all observed the state the (k-1)-th replacement left, so that the
\* committed states form one chain of ticks from the initial prices.
NoLostUpdate ==
    \A k \in 1..Len(log) : log[k] = { k - 1 }

\* C3: price floor: every entry of _last, and every price a tick has
\* simulated, is at least 0.01.
PriceFloor ==
    /\ \A a \in DOMAIN _last : _last[a] >= Floor
    /\ \A t \in Threads : \A a \in DOMAIN th[t].new_prices : th[t].new_prices[a] >= Floor

\* a tick that drove TLT to the floor has committed
FloorReached ==
    /\ ver >= 1
    /\ "TLT" \in DOMAIN _last
    /\ _last["TLT"] = Floor

\* C4: the regime rule: RISK-ON iff spy>0, btc>0, tlt<0; otherwise RISK-OFF
\* iff tlt>0, gld>0, spy<0; otherwise TRANSITION; each with its confidence.
RegimeRule ==
    (probe.kind = "regime" /\ probe.done) =>
        LET spy == probe.spy
            btc == probe.btc
            tlt == probe.tlt
            gld == probe.gld
            on  == spy > 0 /\ btc > 0 /\ tlt < 0
            off == tlt > 0 /\ gld > 0 /\ spy < 0
        IN  /\ probe.label = "RISK-ON" <=> on
            /\ probe.label = "RISK-OFF" <=> (~ on /\ off)
            /\ probe.label = "TRANSITION" <=> (~ on /\ ~ off)
            /\ on => probe.conf = Min(Prob(95), Prob(55) + 8 * (Abs(spy) + Abs(btc) + Abs(tlt)))
            /\ (~ on /\ off) =>
                  probe.conf = Min(Prob(95), Prob(55) + 8 * (Abs(tlt) + Abs(gld) + Abs(spy)))
            /\ (~ on /\ ~ off) =>
                  probe.conf = Min(Prob(75), Prob(45) + 4 * (Abs(spy) + Abs(btc)))

\* a RISK-OFF classification whose confidence is below the cap
RiskOffBelowCap ==
    /\ probe.kind = "regime" /\ probe.done
    /\ probe.label = "RISK-OFF"
    /\ probe.conf < Prob(95)
    /\ probe.btc # probe.gld

\* C5: the signal rule: p_up = 0.50 + 0.06*clamp(ret,-5,5), +0.08 for SPY/BTC
\* under RISK-ON, +0.08 for GLD/TLT under RISK-OFF, -0.05 on a spike, clamped
\* to [0.05, 0.95]; BUY iff p_up >= 0.60, SELL iff p_up <= 0.40, else HOLD;
\* confidence is p_up as a percentage to 1 decimal, also for SELL.
SignalRule ==
    (probe.kind = "signal" /\ probe.done) =>
        LET clamped == IF probe.ret < Percent(-5) THEN Percent(-5)
                       ELSE IF probe.ret > Percent(5) THEN Percent(5)
                       ELSE probe.ret
            on  == IF probe.regime = "RISK-ON" /\ probe.asset \in { "SPY", "BTC" }
                   THEN Prob(8) ELSE 0
            off == IF probe.regime = "RISK-OFF" /\ probe.asset \in { "GLD", "TLT" }
                   THEN Prob(8) ELSE 0
            pen == IF probe.spike THEN Prob(5) ELSE 0
            raw == Prob(50) + 6 * clamped + on + off - pen
            p   == IF raw < Prob(5) THEN Prob(5) ELSE IF raw > Prob(95) THEN Prob(95) ELSE raw
        IN  /\ probe.out.p_up = p
            /\ probe.out.asset = probe.asset
            /\ probe.out.action = "BUY" <=> p >= Prob(60)
            /\ probe.out.action = "SELL" <=> p <= Prob(40)
            /\ probe.out.action = "HOLD" <=> (Prob(40) < p /\ p < Prob(60))
            /\ probe.out.confidence * (ProbScale \div 1000) - p <= (ProbScale \div 1000) \div 2
            /\ p - probe.out.confidence * (ProbScale \div 1000) <= (ProbScale \div 1000) \div 2

\* p_up == 0.60 exactly, and the action is BUY
BuyAtThreshold ==
    /\ probe.kind = "signal" /\ probe.done
    /\ probe.out.p_up = Prob(60)
    /\ probe.out.action = "BUY"

\* C6: confidence bounds: the regime confidence is in [0.45, 0.95] and a
\* signal's confidence, on the 0-100 scale, is in [5, 95].
ConfidenceBounds ==
    /\ (probe.kind = "regime" /\ probe.done) =>
          (Prob(45) <= probe.conf /\ probe.conf <= Prob(95))
    /\ (probe.kind = "signal" /\ probe.done) =>
          (5 * 10 <= probe.out.confidence /\ probe.out.confidence <= 95 * 10)

\* a classification whose raw score 0.55 + 0.08 * sum exceeds the cap
CapBinds ==
    /\ probe.kind = "regime" /\ probe.done
    /\ probe.label = "RISK-ON"
    /\ Prob(55) + 8 * (Abs(probe.spy) + Abs(probe.btc) + Abs(probe.tlt)) > Prob(95)
    /\ probe.conf = Prob(95)

\* the place of an asset in the registry
Place(a) == CHOOSE i \in 1..Len(ASSETS) : ASSETS[i] = a

\* C7: ranking correctness: relative_strength_rank is a permutation of the
\* tracked assets, sorted by return descending, equal returns in registry
\* order; leader is its first asset and laggard its last.
RankingCorrect ==
    (probe.kind = "rank" /\ probe.done) =>
        LET r == probe.rs_rank
        IN  /\ Len(r) = Len(ASSETS)
            /\ { r[k][1] : k \in 1..Len(r) } = Range(ASSETS)
            /\ \A k \in 1..Len(r) : r[k][2] = probe.rets[r[k][1]]
            /\ \A j \in 1..Len(r), k \in 1..Len(r) :
                  j < k => /\ r[j][2] >= r[k][2]
                           /\ r[j][2] = r[k][2] => Place(r[j][1]) < Place(r[k][1])
            /\ probe.leader = r[1][1]
            /\ probe.laggard = r[Len(r)][1]

\* a ranking with a tie among returns that are not all equal
RankedWithTie ==
    /\ probe.kind = "rank" /\ probe.done
    /\ probe.rets["GLD"] = probe.rets["TLT"]
    /\ probe.rets["SPY"] < probe.rets["GLD"]
    /\ probe.rets["BTC"] > probe.rets["GLD"]

\* the end-to-end scenario: a tick that read only the initial prices, whose
\* simulated prices are 505.00, 188.00, 51000.00, 94.00, with no spike, and
\* that has computed its outputs
Scenario(t) ==
    /\ th[t].pc = "commit"
    /\ th[t].seen = { 0 }
    /\ th[t].new_prices = [ SPY |-> Dollars(505), GLD |-> Dollars(188),
                            BTC |-> Dollars(51000), TLT |-> Dollars(94) ]
    /\ \A a \in Range(ASSETS) : ~ th[t].vol_spike[a]

ScenarioOutputs(t) ==
    LET r == Response(th[t])
    IN  /\ r.assets["SPY"].chg_pct = 1000
        /\ r.assets["GLD"].chg_pct = -1053
        /\ r.assets["BTC"].chg_pct = 2000
        /\ r.assets["TLT"].chg_pct = -1053
        /\ r.regime.label = "RISK-ON"
        /\ th[t].signals[1].asset = "SPY"
        /\ th[t].signals[1].p_up = Prob(64)
        /\ th[t].signals[1].action = "BUY"

\* C8 as stated: in the scenario the returns are +1.0, -1.053, +2.0, -1.053,
\* the regime is RISK-ON with confidence 0.95, and SPY gets p_up 0.64, BUY.
ScenarioAsStated ==
    \A t \in Threads :
        Scenario(t) => (ScenarioOutputs(t) /\ th[t].regime_conf = Prob(95))

\* C8 amended: as above, with the regime confidence
\* 0.55 + 0.08*(1.0+2.0+1.053) = 0.874, reported as 87.4.
ScenarioAmended ==
    \A t \in Threads :
        Scenario(t) =>
            /\ ScenarioOutputs(t)
            /\ th[t].regime_conf = Prob(55) + 8 * (1000 + 2000 + 1053)
            /\ th[t].regime_conf < Prob(95)
            /\ Response(th[t]).regime.confidence = 874

ScenarioReached == \E t \in Threads : Scenario(t)

\* C9: with an empty registry no call of live() ends in an exception.
NoFaultOnEmptyRegistry ==
    \A t \in Threads :
        registry = << >> => th[t].result \notin { "IndexError", "KeyError" }

\* C10: _last changes only by one replacement of the whole map, made by a
\* tick that has finished simulation, returns, ranking, regime and signals,
\* and that returns with it; every other step of a tick, a failing one
\* included, leaves _last as it is.
CommitOnceAtEnd ==
    [][ \A t \in Threads :
          th'[t] # th[t] =>
            IF th[t].pc = "commit"
            THEN /\ _last' = th[t].new_prices
                 /\ DOMAIN th[t].rets = Range(registry)
                 /\ Len(th[t].rs_rank) = Len(registry)
                 /\ th[t].regime_label \in Labels
                 /\ Len(th[t].signals) = 4
                 /\ th'[t].pc = "idle"
                 /\ th'[t].result = "ok"
            ELSE _last' = _last ]_vars

\* a tick has replaced the initial prices and returned
TickCommitted ==
    /\ ver = 1
    /\ _last # InitLast(registry)
    /\ \E t \in Threads : th[t].pc = "idle" /\ th[t].result = "ok"

=============================================================================
